---- MODULE Spec2Model ----
(***************************************************************************)
(* chart-streams: the history-driven chart index builder                   *)
(* (pkg/chartstreams/index/git.go) and the server that serves the index    *)
(* (ChartStreamServer in git.go, Server in server.go).                     *)
(*                                                                         *)
(* Go strings are sequences of bytes; "<" on them is byte-wise             *)
(* lexicographic order.  A commit is its position in the sequence that     *)
(* AllCommits hands out (its Hash), a commit time and the tree under the   *)
(* base path.                                                              *)
(***************************************************************************)
EXTENDS Integers, Sequences, FiniteSets, TLC

VARIABLES
    commits,          \* the repository: commits in AllCommits order
    versionCommitMap, \* gitChartIndexBuilder.versionCommitMap (one shared map object)
    pc,               \* position of the running Build call
    iterPos,          \* commits the commit iterator has handed out
    c,                \* Build's c: the commit Next returned, NilCommit for nil
    iterErr,          \* Build's err after commitIter.Next()
    head,             \* the commit checked out in the shared worktree
    chartDirEntries,  \* Build's chartDirEntries
    entryIdx,         \* position of the range loop over chartDirEntries
    index,            \* the *Index the last Build returned, NoIndex before
    builds,           \* Build calls started so far
    kind,             \* the server built: "ChartStreamServer" or "Server"
    srv,              \* the server process: "new", "initializing", "listening"
                      \* or "stopped" (it ended without listening)
    lock,             \* the provider's lock on the worktree: "free" or its holder
    req,              \* the chart request being handled, NoReq when there is none
    resp,             \* the last response written, NoResp before the first
    handled,          \* requests answered so far
    firstRun          \* history: what the first Build call returned, NoIndex before

buildVars == <<versionCommitMap, pc, iterPos, c, iterErr, head,
               chartDirEntries, entryIdx, index, builds>>

vars == <<commits, versionCommitMap, pc, iterPos, c, iterErr, head,
          chartDirEntries, entryIdx, index, builds, kind, srv, lock, req,
          resp, handled, firstRun>>

srvVars == <<kind, srv, lock, req, resp, handled>>

histVars == <<firstRun>>

----------------------------------------------------------------------------
(* Bounds of the model. *)

MaxCommits == 2

MaxBuilds == 2

MaxRequests == 1

----------------------------------------------------------------------------
(* Strings. *)

EmptyStr == <<>>

\* Go's s < t on strings: byte-wise lexicographic.
RECURSIVE StrLess(_, _)
StrLess(s, t) ==
    IF t = <<>> THEN FALSE
    ELSE IF s = <<>> THEN TRUE
    ELSE IF s[1] # t[1] THEN s[1] < t[1]
    ELSE StrLess(Tail(s), Tail(t))

----------------------------------------------------------------------------
(* The repository. *)

NilCommit == 0

NoIndex == [none |-> TRUE]

NoReq == [stage |-> "none"]

NoResp == [handler |-> "none"]

NoPackage == [nil |-> TRUE]

\* A regular file under the base path.
FileEntry(n) ==
    [name |-> n, isDir |-> FALSE, chartYaml |-> "absent",
     declName |-> EmptyStr, declVersion |-> EmptyStr]

\* A directory; chartYaml says what its Chart.yaml is.
DirEntry(n, yaml, dn, dv) ==
    [name |-> n, isDir |-> TRUE, chartYaml |-> yaml,
     declName |-> dn, declVersion |-> dv]

\* The entries the trees of the model are made of: under the name "a" a file,
\* a directory without Chart.yaml, one with a malformed Chart.yaml and the
\* chart a-1; under the name "b" the charts b-1 and b-10, and a directory whose
\* Chart.yaml declares the name "a".
EntryChoices ==
    {FileEntry(<<97>>),
     DirEntry(<<97>>, "absent", EmptyStr, EmptyStr),
     DirEntry(<<97>>, "malformed", EmptyStr, EmptyStr),
     DirEntry(<<97>>, "valid", <<97>>, <<49>>),
     DirEntry(<<98>>, "valid", <<98>>, <<49>>),
     DirEntry(<<98>>, "valid", <<98>>, <<49, 48>>),
     DirEntry(<<98>>, "valid", <<97>>, <<49>>)}

\* A tree: the entries directly under the base path, one per name.  An entry
\* "a" only occurs next to the chart b-1.
IsTree(t) ==
    /\ \A e1 \in t : \A e2 \in t : e1.name = e2.name => e1 = e2
    /\ \A e \in t : e.name = <<97>> => DirEntry(<<98>>, "valid", <<98>>, <<49>>) \in t

Trees == {t \in SUBSET EntryChoices : IsTree(t)}

\* Commit times: no two commits of a repository carry the same time.
IsRepository(cs) ==
    /\ Len(cs) >= 1
    /\ \A i \in 1..Len(cs) : \A j \in 1..Len(cs) : cs[i].When = cs[j].When => i = j

Repositories ==
    UNION {{cs \in [1..n -> [When : 1..n, tree : Trees]] : IsRepository(cs)} :
             n \in 1..MaxCommits}

Hash(i) == i

----------------------------------------------------------------------------
(* The worktree's file system. *)

\* w.Filesystem.ReadDir(basePath): the entries of the checked-out tree, by name.
RECURSIVE ReadDir(_)
ReadDir(t) ==
    IF t = {} THEN <<>>
    ELSE LET e == CHOOSE x \in t : \A y \in t \ {x} : StrLess(x.name, y.name)
         IN  <<e>> \o ReadDir(t \ {e})

\* getChartVersion: a non-directory yields the empty version and a nil error.
getChartVersion(t, chartName) ==
    IF \A e \in t : e.name # chartName
    THEN [version |-> EmptyStr, err |-> "lstat"]
    ELSE LET e == CHOOSE x \in t : x.name = chartName
         IN  IF ~e.isDir THEN [version |-> EmptyStr, err |-> "nil"]
             ELSE IF e.chartYaml = "absent"
                  THEN [version |-> EmptyStr, err |-> "open"]
             ELSE IF e.chartYaml = "malformed"
                  THEN [version |-> EmptyStr, err |-> "unmarshal"]
             ELSE [version |-> e.declVersion, err |-> "nil"]

\* The sentinel no code path returns.
ErrChartNotFound == "chart not found"

ChartNameVersion(n, v) == [name |-> n, version |-> v]

CommitInfo(t, h) == [Time |-> t, Hash |-> h]

\* addChartNameVersionToCommitMap: writes the entry, whatever the map holds.
addChartNameVersionToCommitMap(m, name, version, hash, t) ==
    LET cnv == ChartNameVersion(name, version)
    IN  [k \in DOMAIN m \cup {cnv} |->
            IF k = cnv THEN CommitInfo(t, hash) ELSE m[k]]

EmptyMap == [k \in {} |-> CommitInfo(0, 0)]

----------------------------------------------------------------------------
(* The catalog: helmrepo.IndexFile, its entries in the order Build adds them. *)

\* The less function Build hands to sort.Slice.
less(x, y) ==
    IF StrLess(x.name, y.name) THEN TRUE
    ELSE IF x.name = y.name THEN StrLess(x.version, y.version)
    ELSE FALSE

Insert(x, s) ==
    LET p == CHOOSE i \in 1..(Len(s) + 1) :
                 /\ i = Len(s) + 1 \/ less(x, s[i])
                 /\ \A j \in 1..(i - 1) : ~less(x, s[j])
    IN  SubSeq(s, 1, p - 1) \o <<x>> \o SubSeq(s, p, Len(s))

\* allChartsVersions after sort.Slice: the keys of the map, met in any order,
\* put in the order of less.
RECURSIVE SortSlice(_)
SortSlice(S) ==
    IF S = {} THEN <<>>
    ELSE LET x == CHOOSE k \in S : TRUE
         IN  Insert(x, SortSlice(S \ {x}))

\* path.Join's cleaning of a path: runs of "/" become one "/".
RECURSIVE Clean(_)
Clean(s) ==
    IF Len(s) < 2 THEN s
    ELSE IF s[1] = 47 /\ s[2] = 47 THEN Clean(Tail(s))
    ELSE <<s[1]>> \o Clean(Tail(s))

\* urlutil.URLJoin(baseURL, file)
URLJoin(baseURL, file) == Clean(baseURL \o <<47>> \o file)

\* The base URL with the name and the version in each other's place.
BaseUrl_Swapped(name, version) ==
    <<47, 99, 104, 97, 114, 116, 47>> \o version \o <<47>> \o name

\* fmt.Sprintf("/chart/%s/%s", name, version)
BaseUrl(name, version) ==
    <<47, 99, 104, 97, 114, 116, 47>> \o name \o <<47>> \o version

\* "chart.tgz"
ChartTgz == <<99, 104, 97, 114, 116, 46, 116, 103, 122>>

\* The entry indexFile.Add appends for the key k: the version goes to ApiVersion,
\* Version keeps its zero value.
CatalogEntry(k) ==
    [Name |-> k.name, Version |-> EmptyStr, ApiVersion |-> k.version,
     URLs |-> <<URLJoin(BaseUrl(k.name, k.version), ChartTgz)>>,
     Digest |-> "deadbeef"]

NewIndexFile(m) ==
    LET allChartsVersions == SortSlice(DOMAIN m)
    IN  [i \in 1..Len(allChartsVersions) |-> CatalogEntry(allChartsVersions[i])]

\* The Index holds the builder's map itself, not a copy of it.
NewIndex(m) ==
    [IndexFile |-> NewIndexFile(m),
     chartNameVersionToCommitMap |-> "ib.versionCommitMap"]

\* The map an Index reads its commits from.
IndexMap(ix) == versionCommitMap

----------------------------------------------------------------------------
(* gitChartIndexBuilder.Build, one action per step. *)

\* ib.gitChartRepo.AllCommits()
Build_AllCommits ==
    /\ pc = "AllCommits"
    /\ \E ok \in BOOLEAN :
         IF ok THEN /\ pc' = "Next"
                    /\ iterPos' = 0
         ELSE /\ pc' = "failed"
              /\ UNCHANGED iterPos
    /\ UNCHANGED <<commits, versionCommitMap, c, iterErr, head,
                   chartDirEntries, entryIdx, index, builds, srvVars>>
    /\ UNCHANGED histVars

\* c, err := commitIter.Next(); only an error other than io.EOF leaves the loop.
Build_Next ==
    /\ pc = "Next"
    /\ \E e \in {"nil", "error"} :
         /\ iterErr' = IF e = "error" THEN "error"
                       ELSE IF iterPos < Len(commits) THEN "nil" ELSE "EOF"
         /\ c' = IF iterErr' = "nil" THEN iterPos + 1 ELSE NilCommit
         /\ iterPos' = IF iterErr' = "nil" THEN iterPos + 1 ELSE iterPos
         /\ pc' = IF iterErr' # "nil" /\ iterErr' # "EOF" THEN "Catalog"
                  ELSE "Worktree"
    /\ UNCHANGED <<commits, versionCommitMap, head, chartDirEntries, entryIdx,
                   index, builds, srvVars>>
    /\ UNCHANGED histVars

\* w, err := ib.gitChartRepo.Worktree()
Build_Worktree ==
    /\ pc = "Worktree"
    /\ \E ok \in BOOLEAN : pc' = IF ok THEN "Checkout" ELSE "failed"
    /\ UNCHANGED <<commits, versionCommitMap, iterPos, c, iterErr, head,
                   chartDirEntries, entryIdx, index, builds, srvVars>>
    /\ UNCHANGED histVars

\* A Build that goes on to read the directory without having checked the
\* commit out.
Build_Checkout_Skipped ==
    /\ pc = "Checkout"
    /\ pc' = IF c = NilCommit THEN "panicked" ELSE "ReadDir"
    /\ UNCHANGED <<commits, versionCommitMap, iterPos, c, iterErr, head,
                   chartDirEntries, entryIdx, index, builds, srvVars>>
    /\ UNCHANGED histVars

\* w.Checkout(&git.CheckoutOptions{Hash: c.Hash}): c.Hash panics on a nil c.
Build_Checkout ==
    /\ pc = "Checkout"
    /\ IF c = NilCommit
       THEN /\ pc' = "panicked"
            /\ UNCHANGED head
       ELSE \E ok \in BOOLEAN :
              IF ok THEN /\ head' = Hash(c)
                         /\ pc' = "ReadDir"
              ELSE /\ pc' = "failed"
                   /\ UNCHANGED head
    /\ UNCHANGED <<commits, versionCommitMap, iterPos, c, iterErr,
                   chartDirEntries, entryIdx, index, builds, srvVars>>
    /\ UNCHANGED histVars

\* The tree the worktree shows: that of the commit checked out last.
WorktreeTree == IF head = NilCommit THEN {} ELSE commits[head].tree

\* w.Filesystem.ReadDir(ib.basePath)
Build_ReadDir ==
    /\ pc = "ReadDir"
    /\ \E ok \in BOOLEAN :
         IF ok THEN /\ chartDirEntries' = ReadDir(WorktreeTree)
                    /\ entryIdx' = 1
                    /\ pc' = IF chartDirEntries' = <<>> THEN "Next" ELSE "Entries"
         ELSE /\ pc' = "failed"
              /\ UNCHANGED <<chartDirEntries, entryIdx>>
    /\ UNCHANGED <<commits, versionCommitMap, iterPos, c, iterErr, head,
                   index, builds, srvVars>>
    /\ UNCHANGED histVars

\* One turn of the loop over chartDirEntries.
Build_Entry ==
    /\ pc = "Entries"
    /\ LET chartName == chartDirEntries[entryIdx].name
           r == getChartVersion(WorktreeTree, chartName)
           more == entryIdx < Len(chartDirEntries)
       IN  IF r.err # "nil"
           THEN IF r.err # ErrChartNotFound
                THEN /\ pc' = "failed"
                     /\ UNCHANGED <<versionCommitMap, entryIdx>>
                ELSE /\ pc' = IF more THEN "Entries" ELSE "Next"
                     /\ entryIdx' = entryIdx + 1
                     /\ UNCHANGED versionCommitMap
           ELSE /\ versionCommitMap' =
                      addChartNameVersionToCommitMap(versionCommitMap, chartName,
                          r.version, Hash(c), commits[c].When)
                /\ pc' = IF more THEN "Entries" ELSE "Next"
                /\ entryIdx' = entryIdx + 1
    /\ UNCHANGED <<commits, iterPos, c, iterErr, head, chartDirEntries,
                   index, builds, srvVars>>
    /\ UNCHANGED histVars

\* After the loop: the catalog is derived and the Index returned.
Build_Catalog ==
    /\ pc = "Catalog"
    /\ index' = NewIndex(versionCommitMap)
    /\ firstRun' = IF firstRun = NoIndex
                   THEN [IndexFile |-> NewIndexFile(versionCommitMap),
                         versionCommitMap |-> versionCommitMap]
                   ELSE firstRun
    /\ pc' = "returned"
    /\ UNCHANGED <<commits, versionCommitMap, iterPos, c, iterErr, head,
                   chartDirEntries, entryIdx, builds, srvVars>>

----------------------------------------------------------------------------
(* The chart provider, which is not part of these sources: Initialize runs  *)
(* the one Build, GetChart looks the version up, checks its commit out      *)
(* under the lock and packages the chart's directory.                       *)

Provider_Initialize ==
    /\ pc' = "AllCommits"
    /\ builds' = builds + 1

InitializeReturned == pc \in {"returned", "failed"}

InitializeErr == pc = "failed"

\* The keys clients ask for: b-1, a with the empty version, and b-9, which no
\* tree holds.
RequestKeys ==
    {ChartNameVersion(<<98>>, <<49>>), ChartNameVersion(<<97>>, EmptyStr),
     ChartNameVersion(<<98>>, <<57>>)}

\* The archive of the directory name in the tree t.
Package(t, name) ==
    LET e == CHOOSE x \in t : x.name = name
    IN  [name |-> e.declName, version |-> e.declVersion, dir |-> name]

CanPackage(t, name) ==
    \E e \in t : e.name = name /\ e.isDir /\ e.chartYaml = "valid"

\* A further Build call on the same builder, while the server is serving.
Rebuild ==
    /\ srv = "listening"
    /\ pc = "returned"
    /\ builds < MaxBuilds
    /\ pc' = "AllCommits"
    /\ builds' = builds + 1
    /\ UNCHANGED <<commits, versionCommitMap, iterPos, c, iterErr, head,
                   chartDirEntries, entryIdx, index, srvVars>>
    /\ UNCHANGED histVars

\* GetChart, called by the handler h, up to its Checkout.
GetChart_Checkout(h, k) ==
    IF k \notin DOMAIN IndexMap(index)
    THEN /\ req' = [stage |-> "returned", handler |-> h, key |-> k,
                    err |-> "VersionNotFound", p |-> NoPackage]
         /\ UNCHANGED <<lock, head>>
    ELSE /\ lock = "free"
         /\ \E ok \in BOOLEAN :
              IF ok
              THEN /\ lock' = "GetChart"
                   /\ head' = IndexMap(index)[k].Hash
                   /\ req' = [stage |-> "checkedOut", handler |-> h, key |-> k,
                              err |-> "nil", p |-> NoPackage]
              ELSE /\ req' = [stage |-> "returned", handler |-> h, key |-> k,
                              err |-> "RepositoryError", p |-> NoPackage]
                   /\ UNCHANGED <<lock, head>>

\* GetChart from its Checkout on: the directory is packaged, the lock released.
GetChart_Package ==
    /\ req.stage = "checkedOut"
    /\ lock' = "free"
    /\ req' = IF CanPackage(WorktreeTree, req.key.name)
              THEN [req EXCEPT !.stage = "returned",
                               !.p = Package(WorktreeTree, req.key.name)]
              ELSE [req EXCEPT !.stage = "returned", !.err = "ArchiveBuildError"]
    /\ UNCHANGED <<commits, buildVars, kind, srv, resp, handled>>
    /\ UNCHANGED histVars

----------------------------------------------------------------------------
(* The servers. *)

\* ChartStreamServer.Start: the provider is initialized first.
ChartStreamServer_Start ==
    /\ kind = "ChartStreamServer"
    /\ srv = "new"
    /\ Provider_Initialize
    /\ srv' = "initializing"
    /\ UNCHANGED <<commits, versionCommitMap, iterPos, c, iterErr, head,
                   chartDirEntries, entryIdx, index, kind, lock, req, resp,
                   handled>>
    /\ UNCHANGED histVars

\* A Start that calls listen whatever Initialize returned.
ChartStreamServer_listen_IgnoringErr ==
    /\ kind = "ChartStreamServer"
    /\ srv = "initializing"
    /\ InitializeReturned
    /\ srv' = "listening"
    /\ UNCHANGED <<commits, buildVars, kind, lock, req, resp, handled>>
    /\ UNCHANGED histVars

\* ChartStreamServer.Start after Initialize: an error is returned, listen is
\* only called without one.
ChartStreamServer_listen ==
    /\ kind = "ChartStreamServer"
    /\ srv = "initializing"
    /\ InitializeReturned
    /\ srv' = IF InitializeErr THEN "stopped" ELSE "listening"
    /\ UNCHANGED <<commits, buildVars, kind, lock, req, resp, handled>>
    /\ UNCHANGED histVars

\* Server.Start: the routes are set up and the server listens.
Server_Start == srv' = "listening"

\* The command that runs a Server: it initializes the provider it hands to
\* NewServer.
Serve_Initialize ==
    /\ kind = "Server"
    /\ srv = "new"
    /\ Provider_Initialize
    /\ srv' = "initializing"
    /\ UNCHANGED <<commits, versionCommitMap, iterPos, c, iterErr, head,
                   chartDirEntries, entryIdx, index, kind, lock, req, resp,
                   handled>>
    /\ UNCHANGED histVars

\* ... and starts the server unless Initialize failed.
Serve_Start ==
    /\ kind = "Server"
    /\ srv = "initializing"
    /\ InitializeReturned
    /\ IF InitializeErr THEN srv' = "stopped" ELSE Server_Start
    /\ UNCHANGED <<commits, buildVars, kind, lock, req, resp, handled>>
    /\ UNCHANGED histVars

\* IndexHandler: the index file is written out.
IndexHandler ==
    /\ srv = "listening"
    /\ handled < MaxRequests
    /\ resp' = [handler |-> "IndexHandler", status |-> 200, panicked |-> FALSE,
                body |-> index.IndexFile, getChartErr |-> "nil"]
    /\ handled' = handled + 1
    /\ UNCHANGED <<commits, buildVars, kind, srv, lock, req>>
    /\ UNCHANGED histVars

\* DirectLinkHandler up to the call of GetChart.
DirectLinkHandler_GetChart ==
    /\ srv = "listening"
    /\ req = NoReq
    /\ handled < MaxRequests
    /\ \E k \in RequestKeys : GetChart_Checkout("DirectLinkHandler", k)
    /\ UNCHANGED <<commits, versionCommitMap, pc, iterPos, c, iterErr,
                   chartDirEntries, entryIdx, index, builds, kind, srv, resp,
                   handled>>
    /\ UNCHANGED histVars

\* Server.DirectLinkHandler after GetChart: an error ends the handler with 500.
Server_DirectLinkHandler ==
    IF req.err # "nil"
    THEN [handler |-> "DirectLinkHandler", status |-> 500, panicked |-> FALSE,
          body |-> NoPackage, getChartErr |-> req.err]
    ELSE [handler |-> "DirectLinkHandler", status |-> 200, panicked |-> FALSE,
          body |-> req.p, getChartErr |-> req.err]

\* ChartStreamServer.DirectLinkHandler after GetChart: no return follows
\* AbortWithError, and p.Bytes() on the nil package panics.
ChartStreamServer_DirectLinkHandler ==
    IF req.err # "nil"
    THEN [handler |-> "DirectLinkHandler", status |-> 500, panicked |-> TRUE,
          body |-> NoPackage, getChartErr |-> req.err]
    ELSE [handler |-> "DirectLinkHandler", status |-> 200, panicked |-> FALSE,
          body |-> req.p, getChartErr |-> req.err]

DirectLinkHandler_Respond ==
    /\ req.stage = "returned"
    /\ req.handler = "DirectLinkHandler"
    /\ resp' = IF kind = "Server" THEN Server_DirectLinkHandler
               ELSE ChartStreamServer_DirectLinkHandler
    /\ req' = NoReq
    /\ handled' = handled + 1
    /\ UNCHANGED <<commits, buildVars, kind, srv, lock>>
    /\ UNCHANGED histVars

\* ChartStreamServer.TemplateHandler up to the call of GetChart.
TemplateHandler_GetChart ==
    /\ kind = "ChartStreamServer"
    /\ srv = "listening"
    /\ req = NoReq
    /\ handled < MaxRequests
    /\ \E k \in RequestKeys : GetChart_Checkout("TemplateHandler", k)
    /\ UNCHANGED <<commits, versionCommitMap, pc, iterPos, c, iterErr,
                   chartDirEntries, entryIdx, index, builds, kind, srv, resp,
                   handled>>
    /\ UNCHANGED histVars

\* ChartStreamServer.TemplateHandler after GetChart: no return follows
\* AbortWithError, and p.BytesBuffer on the nil package panics.  Without an
\* error the chart is rendered; a failure of the rendering writes 500 and the
\* handler goes on, to what the helm library then does (panicked or not).
ChartStreamServer_TemplateHandler(renderOk, renderPanics) ==
    IF req.err # "nil"
    THEN [handler |-> "TemplateHandler", status |-> 500, panicked |-> TRUE,
          body |-> NoPackage, getChartErr |-> req.err]
    ELSE IF renderOk
    THEN [handler |-> "TemplateHandler", status |-> 200, panicked |-> FALSE,
          body |-> [rendered |-> req.p], getChartErr |-> req.err]
    ELSE [handler |-> "TemplateHandler", status |-> 500, panicked |-> renderPanics,
          body |-> NoPackage, getChartErr |-> req.err]

TemplateHandler_Respond ==
    /\ req.stage = "returned"
    /\ req.handler = "TemplateHandler"
    /\ \E renderOk \in BOOLEAN : \E renderPanics \in BOOLEAN :
          resp' = ChartStreamServer_TemplateHandler(renderOk, renderPanics)
    /\ req' = NoReq
    /\ handled' = handled + 1
    /\ UNCHANGED <<commits, buildVars, kind, srv, lock>>
    /\ UNCHANGED histVars

----------------------------------------------------------------------------

\* NewGitChartIndexBuilder: the builder starts with an empty map.
Init ==
    /\ commits \in Repositories
    /\ versionCommitMap = EmptyMap
    /\ pc = "idle"
    /\ iterPos = 0
    /\ c = NilCommit
    /\ iterErr = "nil"
    /\ head = NilCommit
    /\ chartDirEntries = <<>>
    /\ entryIdx = 1
    /\ index = NoIndex
    /\ builds = 0
    /\ kind \in {"ChartStreamServer", "Server"}
    /\ srv = "new"
    /\ lock = "free"
    /\ req = NoReq
    /\ resp = NoResp
    /\ handled = 0
    /\ firstRun = NoIndex

Next ==
    \/ Build_AllCommits
    \/ Build_Next
    \/ Build_Worktree
    \/ Build_Checkout
    \/ Build_ReadDir
    \/ Build_Entry
    \/ Build_Catalog
    \/ GetChart_Package
    \/ ChartStreamServer_Start
    \/ ChartStreamServer_listen
    \/ Serve_Initialize
    \/ Serve_Start
    \/ IndexHandler
    \/ DirectLinkHandler_GetChart
    \/ DirectLinkHandler_Respond
    \/ TemplateHandler_GetChart
    \/ TemplateHandler_Respond

\* The server as it is wired: one Build, run by Initialize.
Spec == Init /\ [][Next]_vars

NextRebuild == Next \/ Rebuild

\* The server with a rebuild trigger: further Build calls on the same builder.
SpecRebuild == Init /\ [][NextRebuild]_vars

----------------------------------------------------------------------------
(* What the properties speak of. *)

\* The map of the Index the Build call returned.
VersionIndex == IndexMap(index)

Catalog == index.IndexFile

BuildReturnedIndex == pc = "returned" /\ index # NoIndex

\* The walk of this Build is over: the iterator reported the end of the
\* sequence, or Build returned.
WalkEnded == iterErr = "EOF" \/ BuildReturnedIndex

IsValidChartDir(e) == e.isDir /\ e.chartYaml = "valid"

\* The key a chart directory declares in its Chart.yaml.
DeclaredKey(e) == ChartNameVersion(e.declName, e.declVersion)

\* The commits this Build has walked that hold the key k in a directory of
\* the chart's own name.
CommitsWith(k) ==
    {i \in 1..iterPos :
       \E e \in commits[i].tree :
          IsValidChartDir(e) /\ e.name = e.declName /\ DeclaredKey(e) = k}

EarliestOf(S) == CHOOSE i \in S : \A j \in S : commits[i].When <= commits[j].When

\* The entry the loop over chartDirEntries is at.
CurEntry == chartDirEntries[entryIdx]

----------------------------------------------------------------------------
(* The properties. *)

\* C1: when the walk of Build is over, a key that two or more of the walked
\* commits hold is pinned to the one of them with the earliest commit time,
\* whatever the order of the walk.
C1_EarliestCommitWins ==
    WalkEnded =>
        \A i \in 1..iterPos : \A e \in commits[i].tree :
            LET k == DeclaredKey(e)
            IN  Cardinality(CommitsWith(k)) >= 2 =>
                    /\ k \in DOMAIN versionCommitMap
                    /\ versionCommitMap[k].Hash = Hash(EarliestOf(CommitsWith(k)))

\* C2: Build is all-or-nothing: it returns an Index only when no step failed
\* and every commit of the sequence was walked.
C2_AllOrNothing ==
    BuildReturnedIndex => iterErr # "error" /\ iterPos = Len(commits)

\* C3: when Build has returned an Index, every chart directory of every walked
\* commit has the name and version its Chart.yaml declares as a key of the
\* VersionIndex and as an entry of the Catalog.
C3_DeclaredKeysIndexed ==
    BuildReturnedIndex =>
        \A i \in 1..iterPos : \A e \in commits[i].tree :
            IsValidChartDir(e) =>
                /\ DeclaredKey(e) \in DOMAIN VersionIndex
                /\ \E j \in 1..Len(Catalog) :
                      /\ Catalog[j].Name = e.declName
                      /\ Catalog[j].Version = e.declVersion

\* C4: a candidate that is no directory, or a directory without Chart.yaml, is
\* skipped: the step leaves the map alone and the walk goes on.
C4_NotAPackageSkipped ==
    [][(pc = "Entries" /\ head = Hash(c)
          /\ (~CurEntry.isDir \/ CurEntry.chartYaml = "absent"))
       => (pc' \in {"Entries", "Next"} /\ versionCommitMap' = versionCommitMap)]_vars

\* C5: every key of the map names a path that is, at the commit the key is
\* pinned to, a directory with a parsed Chart.yaml of that version.
C5_KeysAreChartDirs ==
    \A k \in DOMAIN versionCommitMap :
        \E e \in commits[versionCommitMap[k].Hash].tree :
            /\ e.name = k.name
            /\ IsValidChartDir(e)
            /\ e.declVersion = k.version

\* C6: when the commit iterator reports the end of the sequence, Build leaves
\* the walk on that step, derives the catalog and returns.
C6_EndOfSequenceLeavesWalk ==
    iterErr = "EOF" => pc \in {"Catalog", "returned"}

\* C7: the Catalog Build returns is strictly ordered by name, then version.
C7_CatalogStrictlyOrdered ==
    BuildReturnedIndex =>
        \A j \in 1..(Len(Catalog) - 1) :
            \/ StrLess(Catalog[j].Name, Catalog[j + 1].Name)
            \/ /\ Catalog[j].Name = Catalog[j + 1].Name
               /\ StrLess(Catalog[j].Version, Catalog[j + 1].Version)

C9_CheckoutReadUnderLock ==
    /\ pc \in {"ReadDir", "Entries"} => lock = "Build"
    /\ req.stage = "checkedOut" => lock = "GetChart"

\* The reads of Build see the tree of the commit Build checked out.
BuildReadsItsCheckout ==
    pc \in {"ReadDir", "Entries"} => head = Hash(c)

\* C10: once Build has returned an Index, no later step changes the map that
\* Index holds.
C10_IndexNeverChanges ==
    [][index # NoIndex => IndexMap(index)' = IndexMap(index)]_vars

\* C11: a further Build against the unchanged repository returns the Catalog
\* and the VersionIndex the first Build returned: the same entries in the
\* same order, the same keys pinned to the same commits.
C11_RebuildIdempotent ==
    (BuildReturnedIndex /\ builds >= 2) =>
        /\ Catalog = firstRun.IndexFile
        /\ VersionIndex = firstRun.versionCommitMap

\* A chart handler answered a request whose GetChart returned an error.
AnsweredGetChartError ==
    /\ resp.handler \in {"DirectLinkHandler", "TemplateHandler"}
    /\ resp.getChartErr # "nil"

\* C12: when GetChart returns an error, the chart handler writes an error
\* response and ends there: it does not touch the package it did not get and
\* sends no archive or rendered chart.
C12_HandlerStopsOnGetChartError ==
    AnsweredGetChartError =>
        /\ resp.status >= 400
        /\ ~resp.panicked
        /\ resp.body = NoPackage

\* C13: Build reads the directory and the Chart.yaml files of a commit
\* between its Checkout of that commit and its Checkout of the next one, and
\* every key is recorded with the hash and the commit time of the commit it
\* was read from.
C13_ReadsFollowTheirCheckout ==
    /\ pc \in {"ReadDir", "Entries"} => c # NilCommit /\ head = Hash(c)
    /\ pc = "Entries" => chartDirEntries = ReadDir(commits[c].tree)
    /\ \A k \in DOMAIN versionCommitMap :
          LET ci == versionCommitMap[k]
              r == getChartVersion(commits[ci.Hash].tree, k.name)
          IN  /\ ci.Time = commits[ci.Hash].When
              /\ r.err = "nil"
              /\ r.version = k.version

\* C13, witness: Build reads the entries of its second commit, with a key of
\* the first one recorded.
C13_Witness ==
    /\ pc = "Entries"
    /\ c = 2
    /\ head = Hash(2)
    /\ \E k \in DOMAIN versionCommitMap : versionCommitMap[k].Hash = Hash(1)

\* The entries of the Catalog that carry the name and version of the key k.
EntriesOf(k) ==
    {j \in 1..Len(Catalog) :
       Catalog[j].Name = k.name /\ Catalog[j].Version = k.version}

\* C14: the Catalog Build returns has exactly one entry per key of the
\* VersionIndex, with the key's name and version in its name and version
\* fields, and no entry without a key.
C14_CatalogMatchesKeys ==
    BuildReturnedIndex =>
        /\ \A k \in DOMAIN VersionIndex : Cardinality(EntriesOf(k)) = 1
        /\ \A j \in 1..Len(Catalog) :
              ChartNameVersion(Catalog[j].Name, Catalog[j].Version)
                  \in DOMAIN VersionIndex

\* C15: a request for a name and version the VersionIndex does not hold is
\* answered with a not-found response (404), which is not the response to a
\* repository or archive failure (500).
C15_AbsentVersionNotFound ==
    (resp.handler = "DirectLinkHandler" /\ resp.getChartErr = "VersionNotFound")
        => resp.status = 404

\* "/" name "/" version
PlainPath(name, version) == <<47>> \o name \o <<47>> \o version

\* "/chart/" name "/" version "/chart.tgz", the empty version leaving
\* "/chart/" name "/chart.tgz"
ChartTgzPath(name, version) ==
    LET chart == <<47, 99, 104, 97, 114, 116>>
        file  == <<47, 99, 104, 97, 114, 116, 46, 116, 103, 122>>
        ver   == IF version = EmptyStr THEN EmptyStr ELSE <<47>> \o version
    IN  chart \o <<47>> \o name \o ver \o file

\* The key an entry of the Catalog was emitted for.
KeyOf(e) == ChartNameVersion(e.Name, e.ApiVersion)

====
